---- MODULE Spec2Model ----
(***************************************************************************)
(* A model of hotel_analyzer.py: the text normalisers (parse_number,       *)
(* parse_currency, parse_budget_input), the listing sources (fetch_hotels, *)
(* extract_hotels_general, fetch_hotels_fallback, generate_mock_hotels),   *)
(* the ranking functions (average_price, find_best_value) and the run of   *)
(* main().                                                                 *)
(*                                                                         *)
(* A Python str is a sequence of one-character strings.  An Optional is    *)
(* None or Some(v).  A float is the exact decimal it was parsed from,       *)
(* [m |-> mantissa, e |-> fraction digits] without trailing fraction       *)
(* zeros, so that equal values have one representation.                    *)
(***************************************************************************)
EXTENDS Integers, Sequences, FiniteSets, TLC

VARIABLES
    pc,          \* position of main(): see the actions below
    city,        \* main: city (after strip)
    budget_text,     \* main: the budget as typed (after strip)
    budget_amount,   \* main: Optional float
    budget_currency, \* main: Optional currency code
    hotels,      \* main: the listing set
    avg_price,   \* main: Optional <<sum, count>>, the mean left as a fraction
    filtered,    \* main: the listings within budget
    best_value,  \* main: Optional Hotel
    files,       \* the two output files: path -> Optional content
    exitStatus,  \* Optional process exit status
    raised,      \* the uncaught exception that ended the run, and where it arose
    netCalls,    \* the HTTP requests sent, in order
    stages,      \* the data-source stages entered, in order
    stageOut,    \* stage -> the listings it produced (None: it has not run)
    outcomes,    \* kind of each HTTP response received ("" before the request)
    rng,         \* state of the shared random stream (module random)
    text,        \* pure-function harness: the argument
    result,      \* pure-function harness: the returned value
    called       \* pure-function harness: has the function been applied

vars == <<pc, city, budget_text, budget_amount, budget_currency, hotels, avg_price, filtered,
          best_value, files, exitStatus, raised, netCalls, stages, stageOut,
          outcomes, rng, text, result, called>>

mainVars == <<pc, city, budget_text, budget_amount, budget_currency, avg_price,
              filtered, best_value, files, exitStatus, raised, netCalls, stages,
              stageOut, outcomes>>

-----------------------------------------------------------------------------
(* Bounds *)

\* longest text handed to parse_number in the pure-function harness
MaxLen == 5

-----------------------------------------------------------------------------
(* Python values *)

None == [some |-> FALSE]

Some(v) == [some |-> TRUE, v |-> v]

RECURSIVE Pow10(_)
Pow10(n) == IF n <= 0 THEN 1 ELSE 10 * Pow10(n - 1)

\* the float m * 10^-e, normalised
RECURSIVE Dec(_, _)
Dec(m, e) ==
    IF e > 0 /\ m % 10 = 0 THEN Dec(m \div 10, e - 1) ELSE [m |-> m, e |-> e]

\* a <= b, a < b and a + b on floats
DecLeq(a, b) == a.m * Pow10(b.e) <= b.m * Pow10(a.e)

DecLt(a, b) == a.m * Pow10(b.e) < b.m * Pow10(a.e)

DecAdd(a, b) ==
    LET e == IF a.e >= b.e THEN a.e ELSE b.e
    IN  Dec(a.m * Pow10(e - a.e) + b.m * Pow10(e - b.e), e)

Digits == {"0", "1", "2", "3", "4", "5", "6", "7", "8", "9"}

DigitVal(c) ==
    CASE c = "0" -> 0 [] c = "1" -> 1 [] c = "2" -> 2 [] c = "3" -> 3
      [] c = "4" -> 4 [] c = "5" -> 5 [] c = "6" -> 6 [] c = "7" -> 7
      [] c = "8" -> 8 [] c = "9" -> 9

UpperLetters ==
    <<"A", "B", "C", "D", "E", "F", "G", "H", "I", "J", "K", "L", "M",
      "N", "O", "P", "Q", "R", "S", "T", "U", "V", "W", "X", "Y", "Z">>

LowerLetters ==
    <<"a", "b", "c", "d", "e", "f", "g", "h", "i", "j", "k", "l", "m",
      "n", "o", "p", "q", "r", "s", "t", "u", "v", "w", "x", "y", "z">>

\* Characters outside ASCII are named: the euro, pound, rupee and rial
\* signs, and the Arabic letters reh and ain of the rial abbreviation.
ArabicLetters == {"reh", "ain"}

IsDigit(c) == c \in Digits

\* [A-Z]
IsUpper(c) == \E i \in 1..Len(UpperLetters) : UpperLetters[i] = c

IsLower(c) == \E i \in 1..Len(LowerLetters) : LowerLetters[i] = c

\* \w of the re module on str
IsWord(c) == IsDigit(c) \/ IsUpper(c) \/ IsLower(c) \/ c = "_" \/ c \in ArabicLetters

\* ch.upper() and ch.lower()
UpperChar(c) ==
    IF IsLower(c)
    THEN UpperLetters[CHOOSE i \in 1..Len(LowerLetters) : LowerLetters[i] = c]
    ELSE c

LowerChar(c) ==
    IF IsUpper(c)
    THEN LowerLetters[CHOOSE i \in 1..Len(UpperLetters) : UpperLetters[i] = c]
    ELSE c

\* str.upper() and str.lower()
UpperStr(s) == [i \in 1..Len(s) |-> UpperChar(s[i])]

LowerStr(s) == [i \in 1..Len(s) |-> LowerChar(s[i])]

\* ord(ch)
Ord(c) ==
    IF IsUpper(c) THEN 64 + (CHOOSE i \in 1..Len(UpperLetters) : UpperLetters[i] = c)
    ELSE IF IsLower(c) THEN 96 + (CHOOSE i \in 1..Len(LowerLetters) : LowerLetters[i] = c)
    ELSE IF IsDigit(c) THEN 48 + DigitVal(c)
    ELSE IF c = " " THEN 32
    ELSE 63

\* str.strip() on the blanks of the model
RECURSIVE LStrip(_)
LStrip(s) == IF s # <<>> /\ s[1] = " " THEN LStrip(Tail(s)) ELSE s

RECURSIVE RStrip(_)
RStrip(s) ==
    IF s # <<>> /\ s[Len(s)] = " " THEN RStrip(SubSeq(s, 1, Len(s) - 1)) ELSE s

Strip(s) == RStrip(LStrip(s))

Count(s, c) == Cardinality({i \in 1..Len(s) : s[i] = c})

\* str.replace(c, "")
Remove(s, c) == SelectSeq(s, LAMBDA x : x # c)

\* haystack[i .. i+Len(needle)-1] = needle
OccursAt(s, needle, i) ==
    /\ i + Len(needle) - 1 <= Len(s)
    /\ \A k \in 1..Len(needle) : s[i + k - 1] = needle[k]

\* needle in haystack
Contains(s, needle) == \E i \in 1..Len(s) : OccursAt(s, needle, i)

-----------------------------------------------------------------------------
(* parse_number *)

\* [0-9]+ from position i (a digit): the last position of the greedy run
RECURSIVE DigitsEnd(_, _)
DigitsEnd(s, i) ==
    IF i + 1 <= Len(s) /\ IsDigit(s[i + 1]) THEN DigitsEnd(s, i + 1) ELSE i

\* (?:[.,][0-9]+)* after a digit run ending at j: the last position matched
RECURSIVE GroupsEnd(_, _)
GroupsEnd(s, j) ==
    IF j + 2 <= Len(s) /\ s[j + 1] \in {".", ","} /\ IsDigit(s[j + 2])
    THEN GroupsEnd(s, DigitsEnd(s, j + 2))
    ELSE j

\* re.search: the leftmost position where the pattern matches (0: no match)
RECURSIVE SearchNumber(_, _)
SearchNumber(s, i) ==
    IF i > Len(s) THEN 0
    ELSE IF IsDigit(s[i]) THEN i
    ELSE SearchNumber(s, i + 1)

RECURSIVE DigitsToInt(_)
DigitsToInt(ds) ==
    IF ds = <<>> THEN 0
    ELSE 10 * DigitsToInt(SubSeq(ds, 1, Len(ds) - 1)) + DigitVal(ds[Len(ds)])

\* float(raw) for a raw made of digits, '.' and ',': the value, or ValueError
PyFloat(raw) ==
    IF \/ \E i \in 1..Len(raw) : ~IsDigit(raw[i]) /\ raw[i] # "."
       \/ Count(raw, ".") > 1
       \/ \A i \in 1..Len(raw) : ~IsDigit(raw[i])
    THEN [ok |-> FALSE, exc |-> "ValueError", val |-> Dec(0, 0)]
    ELSE LET ds   == Remove(raw, ".")
             dot  == CHOOSE i \in 1..Len(raw) + 1 :
                        (i <= Len(raw) /\ raw[i] = ".")
                        \/ (i = Len(raw) + 1 /\ Count(raw, ".") = 0)
             frac == IF dot > Len(raw) THEN 0 ELSE Len(raw) - dot
         IN  [ok |-> TRUE, exc |-> "",
              val |-> Dec(DigitsToInt(ds), frac)]

\* faulty variant: parse_number without its try/except
ParseNumberCatches_Nothing(exc) == FALSE

\* the exceptions the try of parse_number catches
ParseNumberCatches(exc) == exc = "ValueError"

\* match.group(1) for the match found at start
MatchedRaw(s, start) == SubSeq(s, start, GroupsEnd(s, DigitsEnd(s, start)))

\* the two replace(",", "") of parse_number
NormalizeRaw(raw) ==
    Remove(IF Count(raw, ",") > 1 /\ Count(raw, ".") = 0 THEN Remove(raw, ",") ELSE raw,
           ",")

\* try: return float(raw); except ValueError: return None
TryFloat(f) ==
    IF f.ok THEN [exc |-> "", ret |-> Some(f.val)]
    ELSE IF ParseNumberCatches(f.exc) THEN [exc |-> "", ret |-> None]
    ELSE [exc |-> f.exc, ret |-> None]

\* parse_number after re.search, start being where the match begins
ParseMatch(s, start) ==
    IF start = 0 THEN [exc |-> "", ret |-> None]
    ELSE TryFloat(PyFloat(NormalizeRaw(MatchedRaw(s, start))))

\* parse_number's outcome: [exc |-> "" , ret |-> Optional float], or the
\* exception that escapes it
ParseNumberOutcome(s) == ParseMatch(s, SearchNumber(s, 1))

parse_number(s) == ParseNumberOutcome(s).ret

-----------------------------------------------------------------------------
(* parse_currency, parse_budget_input *)

USD == <<"U", "S", "D">>

\* the dict symbols, in insertion order
CurrencySymbols ==
    << [symbol |-> <<"$">>, code |-> USD],
       [symbol |-> <<"euro">>, code |-> <<"E", "U", "R">>],
       [symbol |-> <<"pound">>, code |-> <<"G", "B", "P">>],
       [symbol |-> <<"rial">>, code |-> <<"O", "M", "R">>],
       [symbol |-> <<"reh", ".", "ain", ".">>, code |-> <<"O", "M", "R">>],
       [symbol |-> <<"A", "E", "D">>, code |-> <<"A", "E", "D">>],
       [symbol |-> <<"S", "A", "R">>, code |-> <<"S", "A", "R">>],
       [symbol |-> <<"O", "M", "R">>, code |-> <<"O", "M", "R">>],
       [symbol |-> <<"rupee">>, code |-> <<"I", "N", "R">>] >>

\* \b([A-Z]{3})\b matches at position i
IsoCodeAt(s, i) ==
    /\ i + 2 <= Len(s)
    /\ \A k \in i..(i + 2) : IsUpper(s[k])
    /\ (i = 1 \/ ~IsWord(s[i - 1]))
    /\ (i + 2 = Len(s) \/ ~IsWord(s[i + 3]))

parse_currency(s) ==
    IF \E k \in 1..Len(CurrencySymbols) : Contains(s, CurrencySymbols[k].symbol)
    THEN LET k == CHOOSE a \in 1..Len(CurrencySymbols) :
                     /\ Contains(s, CurrencySymbols[a].symbol)
                     /\ \A b \in 1..(a - 1) : ~Contains(s, CurrencySymbols[b].symbol)
         IN  Some(CurrencySymbols[k].code)
    ELSE IF \E i \in 1..Len(s) : IsoCodeAt(s, i)
    THEN LET i == CHOOSE a \in 1..Len(s) :
                     IsoCodeAt(s, a) /\ \A b \in 1..(a - 1) : ~IsoCodeAt(s, b)
         IN  Some(SubSeq(s, i, i + 2))
    ELSE None

parse_budget_input(s) ==
    [amount |-> parse_number(s), currency |-> parse_currency(UpperStr(s))]

-----------------------------------------------------------------------------
(* The pure-function harness for parse_number *)

NumAlphabet == {"0", "5", ".", ",", "-", "a"}

RECURSIVE TextsUpTo(_, _)
TextsUpTo(alphabet, n) ==
    IF n = 0 THEN {<<>>}
    ELSE LET shorter == TextsUpTo(alphabet, n - 1)
         IN  shorter \cup {Append(t, c) : t \in {u \in shorter : Len(u) = n - 1},
                                          c \in alphabet}

NumTexts == TextsUpTo(NumAlphabet, MaxLen)

NoException == [exc |-> "", where |-> ""]

Stages == {"structured", "heuristic", "fallback", "mock"}

IdleMain ==
    /\ pc = "idle" /\ city = <<>> /\ budget_text = <<>> /\ budget_amount = None
    /\ budget_currency = None /\ avg_price = None
    /\ filtered = <<>> /\ best_value = None
    /\ files = [p \in {"budget_hotels.csv", "budget_hotels.json"} |-> None]
    /\ exitStatus = None /\ raised = NoException /\ netCalls = <<>> /\ stages = <<>>
    /\ stageOut = [s \in Stages |-> None]
    /\ outcomes = [r \in {"primary", "fallback"} |-> ""]

InitParse ==
    /\ IdleMain
    /\ hotels = <<>>
    /\ rng = 0
    /\ text \in NumTexts
    /\ result = [exc |-> "", ret |-> None]
    /\ called = FALSE

CallParseNumber ==
    /\ ~called
    /\ result' = ParseNumberOutcome(text)
    /\ called' = TRUE
    /\ UNCHANGED <<mainVars, hotels, rng, text>>

NextParse == CallParseNumber

SpecParse == InitParse /\ [][NextParse]_vars

-----------------------------------------------------------------------------
(* Hotel, average_price, find_best_value *)

\* a Python object that may be a str, a number or None
Str(s) == [t |-> "str", s |-> s, n |-> 0]

Num(n) == [t |-> "num", s |-> <<>>, n |-> n]

PyNone == [t |-> "none", s |-> <<>>, n |-> 0]

\* bool(v)
Truthy(v) == (v.t = "str" /\ v.s # <<>>) \/ (v.t = "num" /\ v.n # 0)

Hotel(name, rating, price, currency) ==
    [name |-> name, rating |-> rating, price |-> price, currency |-> currency]

\* [h for h in hs if h.price is not None]
Priced(hs) == SelectSeq(hs, LAMBDA h : h.price # None)

\* sum(prices) over a list of floats
RECURSIVE SumPrices(_)
SumPrices(hs) ==
    IF hs = <<>> THEN Dec(0, 0) ELSE DecAdd(hs[1].price.v, SumPrices(Tail(hs)))

\* average_price: Optional <<sum, count>>, the quotient left unevaluated
MeanOf(prices) ==
    IF prices = <<>> THEN None ELSE Some(<<SumPrices(prices), Len(prices)>>)

average_price(hs) == MeanOf(Priced(hs))

\* min(...) over floats: the first smallest (min replaces on <)
RECURSIVE PyMinPrice(_, _)
PyMinPrice(hs, best) ==
    IF hs = <<>> THEN best
    ELSE PyMinPrice(Tail(hs), IF DecLt(hs[1].price.v, best) THEN hs[1].price.v ELSE best)

\* hotel.rating or 0
RatingKey(h) ==
    IF h.rating = None \/ h.rating.v.m = 0 THEN Dec(0, 0) ELSE h.rating.v

\* faulty variant: max replacing its best on an equal key (the last of a tie wins)
MaxReplaces_OnTie(cur, nxt) == DecLeq(RatingKey(cur), RatingKey(nxt))

\* does max(..., key=...) replace its current best cur by the next item nxt
MaxReplaces(cur, nxt) == DecLt(RatingKey(cur), RatingKey(nxt))

\* max(cheapest, key=...): the first item with the largest key
RECURSIVE PyMaxByRating(_, _)
PyMaxByRating(hs, best) ==
    IF hs = <<>> THEN best
    ELSE PyMaxByRating(Tail(hs), IF MaxReplaces(best, hs[1]) THEN hs[1] ELSE best)

\* [h for h in priced if h.price == min_price]
Cheapest(priced, min_price) == SelectSeq(priced, LAMBDA h : h.price.v = min_price)

\* max(cheapest, key=lambda hotel: hotel.rating or 0)
BestOf(cheapest) == PyMaxByRating(Tail(cheapest), cheapest[1])

\* find_best_value once priced is built
BestOfPriced(priced) ==
    IF priced = <<>> THEN None
    ELSE Some(BestOf(Cheapest(priced, PyMinPrice(Tail(priced), priced[1].price.v))))

find_best_value(hs) == BestOfPriced(Priced(hs))

-----------------------------------------------------------------------------
(* The pure-function harness for find_best_value *)

\* longest list handed to find_best_value in the harness
MaxRankLen == 3

RankNames == {Str(<<"A">>), Str(<<"B">>)}

RankRatings == {None, Some(Dec(0, 0)), Some(Dec(80, 1)), Some(Dec(90, 1))}

RankPrices == {None, Some(Dec(50, 0)), Some(Dec(60, 0))}

RankHotels ==
    {Hotel(n, r, p, Some(USD)) :
        n \in RankNames, r \in RankRatings, p \in RankPrices}

RankLists == UNION {[1..n -> RankHotels] : n \in 0..MaxRankLen}

InitRank ==
    /\ IdleMain
    /\ rng = 0
    /\ text \in RankLists
    /\ hotels = text
    /\ result = None
    /\ called = FALSE

\* result = find_best_value(hotels); the function assigns to no listing
CallFindBestValue ==
    /\ ~called
    /\ result' = find_best_value(hotels)
    /\ called' = TRUE
    /\ UNCHANGED <<mainVars, hotels, rng, text>>

NextRank == CallFindBestValue

SpecRank == InitRank /\ [][NextRank]_vars

-----------------------------------------------------------------------------
(* generate_mock_hotels and the shared random stream *)

\* The state of module random's generator is a number below RngMod.  The
\* generator is modelled by a small congruential generator: what matters to
\* the program is that seed() fixes the state from its argument alone and
\* that every draw depends on, and advances, the state.
RngMod == 64

RngStates == 0..(RngMod - 1)

\* random.seed(n)
RngSeed(n) == n % RngMod

\* the state after one draw
RngStep(s) == (5 * s + 3) % RngMod

\* round(a + (b - a) * random(), digits) in units of the last digit kept,
\* for the draw that leaves the generator in state s
Uniform(a, b, s) == a + ((b - a) * s) \div (RngMod - 1)

RECURSIVE SumOrd(_)
SumOrd(s) == IF s = <<>> THEN 0 ELSE Ord(s[1]) + SumOrd(Tail(s))

\* faulty variant: the seed taken from the city as typed
CitySeed_CaseSensitive(c) == SumOrd(c)

\* seed = sum(ord(ch) for ch in city.lower())
CitySeed(c) == SumOrd(LowerStr(c))

\* the suffixes of base_names
MockSuffixes ==
    << <<" ", "G", "r", "a", "n", "d", " ", "H", "o", "t", "e", "l">>,
       <<" ", "P", "l", "a", "z", "a">>,
       <<" ", "B", "o", "u", "t", "i", "q", "u", "e", " ", "S", "t", "a", "y">>,
       <<" ", "R", "i", "v", "e", "r", "s", "i", "d", "e", " ", "I", "n", "n">>,
       <<" ", "C", "e", "n", "t", "r", "a", "l", " ", "S", "u", "i", "t", "e", "s">> >>

\* the generator state before the k-th listing's draws, from state s0
RECURSIVE RngAfter(_, _)
RngAfter(s0, draws) == IF draws = 0 THEN s0 ELSE RngStep(RngAfter(s0, draws - 1))

\* the loop of generate_mock_hotels, the stream being in state s0 before it:
\* the k-th listing takes the draws 2k-1 (rating) and 2k (price)
MockListings(c, s0) ==
    [ret |-> [k \in 1..Len(MockSuffixes) |->
                Hotel(Str(c \o MockSuffixes[k]),
                      Some(Dec(Uniform(70, 94, RngAfter(s0, 2 * k - 1)), 1)),
                      Some(Dec(Uniform(2500, 12000, RngAfter(s0, 2 * k)), 2)),
                      Some(USD))],
     rng |-> RngAfter(s0, 2 * Len(MockSuffixes))]

\* generate_mock_hotels: the listings returned and the state the shared
\* stream is left in; cur is the state of the stream at the call, which
\* random.seed(seed) overwrites
generate_mock_hotels(c, cur) == MockListings(c, RngSeed(CitySeed(c)))

\* build_headers: random.choice(USER_AGENTS) draws from the shared stream
build_headers(cur) == RngStep(cur)

-----------------------------------------------------------------------------
(* Exceptions *)

\* isinstance(exc, cls) for the exception classes the program meets
IsInstance(exc, cls) ==
    \/ exc = cls
    \/ cls = "RequestException" /\ exc \in {"ConnectionError", "Timeout", "HTTPError", "JSONDecodeError"}
    \/ cls = "ValueError" /\ exc = "JSONDecodeError"

-----------------------------------------------------------------------------
(* fetch_hotels: the structured scan and extract_hotels_general *)

\* A response to the primary request: a transport failure, an error status
\* (raise_for_status), or a page.  Of a page the model keeps what the two
\* scans read: per property card the text of its title, review-score and
\* price elements (None: no such element), and the text nodes of the page
\* with, for each, its nearest div/article/li/section ancestor (None: it
\* has none), of which the scan reads the text of the first node of each
\* name selector and the container's whole text.

\* el.get_text(...) if el else ""
TextOrEmpty(el) == IF el # None THEN el.v ELSE <<>>

\* faulty variant: a card kept whenever it has a title element, even an empty one
CardHasName_AnyTitle(title) == title # None

\* "if name": the card's title element exists and its text is not empty
CardHasName(title) == title # None /\ title.v # <<>>

\* what one property card appends to hotels: one hotel, or nothing
CardHotel(card) ==
    IF CardHasName(card.title)
    THEN << Hotel(Str(card.title.v), parse_number(TextOrEmpty(card.rating)),
                  parse_number(TextOrEmpty(card.price)),
                  parse_currency(TextOrEmpty(card.price))) >>
    ELSE <<>>

\* the loop over cards
RECURSIVE StructuredScan(_)
StructuredScan(cards) ==
    IF cards = <<>> THEN <<>>
    ELSE CardHotel(cards[1]) \o StructuredScan(Tail(cards))

\* the alternatives of price_pattern, upper-cased (the pattern ignores case)
PriceSymbols ==
    { <<"$">>, <<"euro">>, <<"pound">>, <<"A", "E", "D">>, <<"S", "A", "R">>,
      <<"O", "M", "R">>, <<"U", "S", "D">>, <<"G", "B", "P">>, <<"E", "U", "R">>,
      <<"I", "N", "R">>, <<"rupee">>, <<"reh", ".", "ain", ".">>, <<"rial">> }

\* price_pattern.search(s): a symbol, blanks, a digit
MatchesPricePattern(s) ==
    \E sym \in PriceSymbols : \E i \in 1..Len(s) :
        /\ OccursAt(UpperStr(s), sym, i)
        /\ \E j \in (i + Len(sym))..Len(s) :
              /\ IsDigit(s[j])
              /\ \A k \in (i + Len(sym))..(j - 1) : s[k] = " "

\* is the text of the first node of a selector accepted as the name
NameAccepted(name) == name # <<>> /\ Len(name) > 2

\* find_hotel_name: names[k] is the text of the first node matching the
\* k-th selector (title, h3, h2, h4, a), None when nothing matches it
RECURSIVE find_hotel_name(_)
find_hotel_name(names) ==
    IF names = <<>> THEN None
    ELSE IF names[1] # None /\ NameAccepted(names[1].v) THEN names[1]
    ELSE find_hotel_name(Tail(names))

\* "if not name: continue", else the hotel appended
NamedNodeHotel(node, name) ==
    IF name = None \/ name.v = <<>> THEN <<>>
    ELSE << Hotel(Str(name.v), parse_number(node.container.v.text),
                  parse_number(node.text), parse_currency(node.text)) >>

\* what one price node appends to hotels: one hotel, or nothing
NodeHotel(node) ==
    IF node.container = None THEN <<>>
    ELSE NamedNodeHotel(node, find_hotel_name(node.container.v.names))

RECURSIVE GeneralLoop(_)
GeneralLoop(nodes) ==
    IF nodes = <<>> THEN <<>>
    ELSE NodeHotel(nodes[1]) \o GeneralLoop(Tail(nodes))

\* extract_hotels_general over the text nodes of the page
extract_hotels_general(textNodes) ==
    GeneralLoop(SelectSeq(textNodes, LAMBDA n : MatchesPricePattern(n.text)))

\* faulty variant: the heuristic scan run after every structured scan
HeuristicEntered_Always(structured) == TRUE

\* "if not hotels" of fetch_hotels: is the heuristic scan entered
HeuristicEntered(structured) == structured = <<>>

-----------------------------------------------------------------------------
(* fetch_hotels_fallback *)

\* str(v) of a JSON number or string
RECURSIVE IntToDigits(_)
IntToDigits(n) ==
    LET d == <<"0", "1", "2", "3", "4", "5", "6", "7", "8", "9">>[(n % 10) + 1]
    IN  IF n < 10 THEN <<d>> ELSE Append(IntToDigits(n \div 10), d)

PyStr(v) == IF v.t = "num" THEN IntToDigits(v.n) ELSE v.s

\* a or b
PyOr(a, b) == IF Truthy(a) THEN a ELSE b

\* the exception classes of the except clause
FallbackCatches(exc) ==
    \/ IsInstance(exc, "RequestException")
    \/ IsInstance(exc, "ValueError")
    \/ IsInstance(exc, "TypeError")

\* the body of the loop for one item: the exception it raises ("" if none)
\* and what it appends to hotels.  item.get exists on a dict only;
\* a key that is missing and a key that is null both read as PyNone; empty
\* says that the dict has no key at all ("if item").
\* parse_number(str(item.get(key) or "")) if item else None
ItemNumber(item, v) ==
    IF ~item.empty THEN parse_number(PyStr(PyOr(v, Str(<<>>)))) ELSE None

\* "if name: hotels.append(...)"
ItemHotel(item, name) ==
    IF Truthy(name)
    THEN << Hotel(name, ItemNumber(item, item.rating), ItemNumber(item, item.price),
                  Some(USD)) >>
    ELSE <<>>

FallbackItem(item) ==
    IF item.k # "obj"
    THEN [exc |-> "AttributeError", hotel |-> <<>>]
    ELSE [exc |-> "", hotel |-> ItemHotel(item, PyOr(item.name, item.hotel_name))]

\* the loop: the exception that ends it ("" if it completes) and the list
RECURSIVE FallbackLoop(_, _)
FallbackStep(r, rest, acc) ==
    IF r.exc # "" THEN [exc |-> r.exc, hotels |-> acc]
    ELSE FallbackLoop(rest, acc \o r.hotel)

FallbackLoop(items, acc) ==
    IF items = <<>> THEN [exc |-> "", hotels |-> acc]
    ELSE FallbackStep(FallbackItem(items[1]), Tail(items), acc)

\* the try block: the exception raised in it ("" if none) and the list built
FallbackTry(resp) ==
    CASE resp.kind = "transport_error" -> [exc |-> "ConnectionError", hotels |-> <<>>]
      [] resp.kind = "error_status"    -> [exc |-> "HTTPError", hotels |-> <<>>]
      [] resp.kind = "not_json"        -> [exc |-> "JSONDecodeError", hotels |-> <<>>]
      [] resp.kind \in {"null", "number"} -> [exc |-> "TypeError", hotels |-> <<>>]
      [] resp.kind \in {"object", "array", "string"} -> FallbackLoop(resp.items, <<>>)

\* fetch_hotels_fallback: the exception that escapes it ("" if none), the
\* list returned, whether generate_mock_hotels ran, and the random stream
\* after it; cur is the stream after build_headers
MockReturned(g) == [exc |-> "", ret |-> g.ret, mock |-> TRUE, rng |-> g.rng]

\* the end of the try block: return hotels, the except clause, or the
\* exception going on to the caller
FallbackExcept(t, c, cur) ==
    IF t.exc = "" THEN [exc |-> "", ret |-> t.hotels, mock |-> FALSE, rng |-> cur]
    ELSE IF FallbackCatches(t.exc) THEN MockReturned(generate_mock_hotels(c, cur))
    ELSE [exc |-> t.exc, ret |-> <<>>, mock |-> FALSE, rng |-> cur]

fetch_hotels_fallback(c, resp, cur) == FallbackExcept(FallbackTry(resp), c, cur)

-----------------------------------------------------------------------------
(* The harness for generate_mock_hotels: calls with any cities, with draws *)
(* from the shared stream by other code in between.                        *)

\* calls of generate_mock_hotels in one behaviour of the harness
MaxCalls == 2

\* draws by other code between the first call and the last
MaxDraws == 2

MockCities ==
    { <<"M", "u">>, <<"m", "u">>, <<"M", "U">>, <<"u", "m">>, <<"O", "m">> }

InitMock ==
    /\ IdleMain
    /\ hotels = <<>>
    /\ rng \in RngStates
    /\ text = [city |-> <<>>, ret |-> <<>>, draws |-> 0]
    /\ result = [city |-> <<>>, ret |-> <<>>]
    /\ called = 0

\* text: the first call and the draws since; result: the latest call
CallGenerateMock ==
    /\ called < MaxCalls
    /\ \E c \in MockCities :
          \E g \in {generate_mock_hotels(c, rng)} :
          /\ rng' = g.rng
          /\ result' = [city |-> c, ret |-> g.ret]
          /\ text' = IF called = 0 THEN [city |-> c, ret |-> g.ret, draws |-> 0]
                     ELSE text
    /\ called' = called + 1
    /\ UNCHANGED <<mainVars, hotels>>

\* any other use of the stream, e.g. build_headers
DrawFromStream ==
    /\ text.draws < MaxDraws
    /\ rng' = build_headers(rng)
    /\ text' = [text EXCEPT !.draws = IF called > 0 THEN @ + 1 ELSE @]
    /\ called > 0
    /\ UNCHANGED <<mainVars, hotels, result, called>>

NextMock == CallGenerateMock \/ DrawFromStream

SpecMock == InitMock /\ [][NextMock]_vars

-----------------------------------------------------------------------------
(* save_csv, save_json, print_table *)

\* faulty variant: save_csv without writeheader()
save_csv_NoHeader(hs) ==
    [i \in 1..Len(hs) |-> <<hs[i].name, hs[i].rating, hs[i].price, hs[i].currency>>]

\* the rows save_csv writes: the header, then one row per hotel
save_csv(hs) ==
    <<"name,rating,price,currency">>
        \o [i \in 1..Len(hs) |-> <<hs[i].name, hs[i].rating, hs[i].price, hs[i].currency>>]

\* the array save_json dumps
save_json(hs) ==
    [i \in 1..Len(hs) |-> [name |-> hs[i].name, rating |-> hs[i].rating,
                           price |-> hs[i].price, currency |-> hs[i].currency]]

\* print_table: the exception it raises ("" if none); len(h.name) and
\* h.name.ljust need a str
print_table(hs, best) ==
    IF hs = <<>> THEN ""
    ELSE IF \E i \in 1..Len(hs) : hs[i].name.t # "str" THEN "TypeError"
    ELSE ""

-----------------------------------------------------------------------------
(* main *)

\* faulty variant: main without the check of budget_amount
BudgetUnparsed_Never(amount) == FALSE

\* faulty variant: the budget filter with < for <=
WithinBudget_Strict(h, amount) == h.price # None /\ DecLt(h.price.v, amount)

\* faulty variant: main without the early exit on an empty listing set
NoHotels_Never(hs) == FALSE

\* "if not city" and "if budget_amount is None"
CityMissing(c) == c = <<>>

BudgetUnparsed(amount) == amount = None

\* the filter of main: price present and within the budget
WithinBudget(h, amount) == h.price # None /\ DecLeq(h.price.v, amount)

\* "if not hotels" before the fallback request
PrimaryEmpty(hs) == hs = <<>>

\* "if not hotels" before the early exit
NoHotels(hs) == hs = <<>>

\* cards and text nodes of a page, items of a fallback payload
MaxCards == 2

MaxNodes == 2

MaxItems == 2

T_Inn == <<"I", "n", "n">>

CityInputs == { <<>>, <<" ">>, <<"M", "u">>, <<" ", "m", "u", " ">> }

BudgetInputs ==
    { <<>>, <<"f", "r", "e", "e">>, <<"1", ".", "2", ".", "3">>,
      <<" ", "5", "0", " ", "o", "m", "r">>, <<"$", "6", "0", ".", "5">> }

Cards ==
    [title  : {None, Some(<<>>), Some(T_Inn)},
     rating : {None, Some(<<"8", ".", "5">>)},
     price  : {None, Some(<<"$", "5", "0">>), Some(<<"7", "0">>)}]

\* a container whose only name candidate is too short; one whose title is
\* empty, whose h3 is too short and whose link is the name; one with a title
Containers ==
    { [names |-> <<None, Some(<<"A", "B">>), None, None, None>>,
       text  |-> <<"A", "B", " ", "$", "4", "0">>],
      [names |-> <<Some(<<>>), Some(<<"A", "B">>), None, None, Some(<<"S", "p", "a">>)>>,
       text  |-> <<"A", "B", " ", "S", "p", "a", " ", "9", ".", "1">>],
      [names |-> <<Some(T_Inn), None, None, None, Some(<<"S", "p", "a">>)>>,
       text  |-> <<"I", "n", "n", " ", "S", "p", "a">>] }

TextNodes ==
    [text      : { <<"$", "4", "0">>, <<"o", "m", "r", " ", "9">>, <<"c", "a", "s", "h">> },
     container : {None} \cup {Some(c) : c \in Containers}]

SeqsUpTo(S, n) == UNION {[1..k -> S] : k \in 0..n}

PrimaryResponses ==
    {[kind |-> k, cards |-> <<>>] : k \in {"transport_error", "error_status"}}
        \cup {[kind |-> "page", cards |-> cs] : cs \in SeqsUpTo(Cards, MaxCards)}

JsonObject(empty, name, hotel_name, rating, price) ==
    [k |-> "obj", empty |-> empty, name |-> name, hotel_name |-> hotel_name,
     rating |-> rating, price |-> price]

\* {}, {"id": 1}, {"name": "", "hotel_name": "Lodge", "rating": 8, "price": 45},
\* {"name": "Inn"}, {"name": "Inn", "rating": 8, "price": "90.5"},
\* {"name": 7, "rating": 8, "price": 45}, {"name": 0, "hotel_name": ""}
JsonObjects ==
    { JsonObject(TRUE, PyNone, PyNone, PyNone, PyNone),
      JsonObject(FALSE, PyNone, PyNone, PyNone, PyNone),
      JsonObject(FALSE, Str(<<>>), Str(<<"L", "o", "d", "g", "e">>), Num(8), Num(45)),
      JsonObject(FALSE, Str(T_Inn), PyNone, PyNone, PyNone),
      JsonObject(FALSE, Str(T_Inn), PyNone, Num(8), Str(<<"9", "0", ".", "5">>)),
      JsonObject(FALSE, Num(7), PyNone, Num(8), Num(45)),
      JsonObject(FALSE, Num(0), Str(<<>>), PyNone, PyNone) }

\* an array element that is no object: null, a string, a number
JsonOthers ==
    {[k |-> k, empty |-> FALSE, name |-> PyNone, hotel_name |-> PyNone,
      rating |-> PyNone, price |-> PyNone] : k \in {"null", "str", "num"}}

\* for item in "ab": the items are the one-character strings
CharItems(n) ==
    [i \in 1..n |-> [k |-> "str", empty |-> FALSE, name |-> PyNone,
                     hotel_name |-> PyNone, rating |-> PyNone, price |-> PyNone]]

FallbackResponses ==
    {[kind |-> k, items |-> <<>>] :
        k \in {"transport_error", "error_status", "not_json", "null", "number"}}
      \cup {[kind |-> "string", items |-> CharItems(n)] : n \in {0, 2}}
      \cup {[kind |-> "object", items |-> <<o>>] : o \in JsonObjects}
      \cup {[kind |-> "array", items |-> is] :
              is \in SeqsUpTo(JsonObjects \cup JsonOthers, MaxItems)}

Paths == {"budget_hotels.csv", "budget_hotels.json"}

Init ==
    /\ pc = "input_city"
    /\ city = <<>> /\ budget_text = <<>>
    /\ budget_amount = None /\ budget_currency = None
    /\ hotels = <<>> /\ avg_price = None /\ filtered = <<>> /\ best_value = None
    /\ files = [p \in Paths |-> None]
    /\ exitStatus = None /\ raised = NoException /\ netCalls = <<>> /\ stages = <<>>
    /\ stageOut = [s \in Stages |-> None]
    /\ outcomes = [r \in {"primary", "fallback"} |-> ""]
    /\ rng \in {0, RngMod - 1}
    /\ text = <<>> /\ result = None /\ called = FALSE

harnessVars == <<text, result, called>>

\* sys.exit(status), or the end of main (status 0)
Exit(status) == pc' = "exited" /\ exitStatus' = Some(status)

\* an exception no handler catches ends the process with status 1
Crash(exc, where) ==
    /\ pc' = "exited"
    /\ exitStatus' = Some(1)
    /\ raised' = [exc |-> exc, where |-> where]

\* city = input(...).strip(); if not city: sys.exit(1)
InputCity ==
    /\ pc = "input_city"
    /\ \E typed \in CityInputs :
          /\ city' = Strip(typed)
          /\ IF CityMissing(Strip(typed))
             THEN Exit(1)
             ELSE pc' = "input_budget" /\ UNCHANGED exitStatus
    /\ UNCHANGED <<budget_text, budget_amount, budget_currency, hotels, avg_price,
                   filtered, best_value, files, raised, netCalls, stages, stageOut,
                   outcomes, rng, harnessVars>>

\* budget_text = input(...).strip(); parse_budget_input; sys.exit(1) on None
InputBudget ==
    /\ pc = "input_budget"
    /\ \E typed \in BudgetInputs :
          \E b \in {parse_budget_input(Strip(typed))} :
          /\ budget_text' = Strip(typed)
          /\ budget_amount' = b.amount
          /\ budget_currency' = b.currency
          /\ IF BudgetUnparsed(b.amount)
             THEN Exit(1)
             ELSE pc' = "fetch_hotels" /\ UNCHANGED exitStatus
    /\ UNCHANGED <<city, hotels, avg_price, filtered, best_value, files, raised,
                   netCalls, stages, stageOut, outcomes, rng, harnessVars>>

\* fetch_hotels up to "if not hotels": the request and the structured scan;
\* main's except turns a RequestException into hotels = []
FetchPrimary ==
    /\ pc = "fetch_hotels"
    /\ netCalls' = Append(netCalls, "primary")
    /\ rng' = build_headers(rng)
    /\ \E resp \in PrimaryResponses :
          /\ outcomes' = [outcomes EXCEPT !["primary"] = resp.kind]
          /\ IF resp.kind # "page"
             THEN /\ hotels' = <<>>
                  /\ pc' = "after_primary"
                  /\ UNCHANGED <<stages, stageOut>>
             ELSE \E found \in {StructuredScan(resp.cards)} :
                  /\ hotels' = found
                  /\ stages' = Append(stages, "structured")
                  /\ stageOut' = [stageOut EXCEPT !["structured"] = Some(found)]
                  /\ pc' = IF HeuristicEntered(found) THEN "heuristic" ELSE "after_primary"
    /\ UNCHANGED <<city, budget_text, budget_amount, budget_currency, avg_price, filtered,
                   best_value, files, exitStatus, raised, harnessVars>>

\* the end of fetch_hotels when the structured scan found nothing
ExtractGeneral ==
    /\ pc = "heuristic"
    /\ \E nodes \in SeqsUpTo(TextNodes, MaxNodes) :
          \E found \in {extract_hotels_general(nodes)} :
          /\ hotels' = found
          /\ stageOut' = [stageOut EXCEPT !["heuristic"] = Some(found)]
    /\ stages' = Append(stages, "heuristic")
    /\ pc' = "after_primary"
    /\ UNCHANGED <<city, budget_text, budget_amount, budget_currency, avg_price, filtered,
                   best_value, files, exitStatus, raised, netCalls, outcomes, rng,
                   harnessVars>>

\* "if not hotels: hotels = fetch_hotels_fallback(city, session)"
FetchFallback ==
    /\ pc = "after_primary"
    /\ PrimaryEmpty(hotels)
    /\ netCalls' = Append(netCalls, "fallback")
    /\ \E resp \in FallbackResponses :
          \E r \in {fetch_hotels_fallback(city, resp, build_headers(rng))} :
          /\ outcomes' = [outcomes EXCEPT !["fallback"] = resp.kind]
          /\ rng' = r.rng
          /\ stages' = IF r.mock THEN stages \o <<"fallback", "mock">>
                       ELSE Append(stages, "fallback")
          /\ stageOut' = [stageOut EXCEPT
                              !["fallback"] = IF r.mock \/ r.exc # "" THEN Some(<<>>)
                                              ELSE Some(r.ret),
                              !["mock"] = IF r.mock THEN Some(r.ret) ELSE @]
          /\ IF r.exc # ""
             THEN Crash(r.exc, "fetch_hotels_fallback") /\ UNCHANGED hotels
             ELSE /\ hotels' = r.ret
                  /\ pc' = "after_fallback"
                  /\ UNCHANGED <<exitStatus, raised>>
    /\ UNCHANGED <<city, budget_text, budget_amount, budget_currency, avg_price, filtered,
                   best_value, files, harnessVars>>

\* "if not hotels: ... sys.exit(0)"
ExitNoHotels ==
    /\ pc = "after_fallback"
    /\ NoHotels(hotels)
    /\ Exit(0)
    /\ UNCHANGED <<city, budget_text, budget_amount, budget_currency, hotels, avg_price,
                   filtered, best_value, files, raised, netCalls, stages,
                   stageOut, outcomes, rng, harnessVars>>

\* average_price, the budget filter, find_best_value, print_table
Rank ==
    /\ \/ pc = "after_primary" /\ ~PrimaryEmpty(hotels)
       \/ pc = "after_fallback" /\ ~NoHotels(hotels)
    /\ avg_price' = average_price(hotels)
    /\ \E kept \in {SelectSeq(hotels, LAMBDA h : WithinBudget(h, budget_amount.v))} :
       \E best \in {find_best_value(kept)} :
       \E exc \in {print_table(kept, best)} :
           /\ filtered' = kept
           /\ best_value' = best
           /\ IF exc # "" THEN Crash(exc, "print_table")
              ELSE pc' = "save_csv" /\ UNCHANGED <<exitStatus, raised>>
    /\ UNCHANGED <<city, budget_text, budget_amount, budget_currency, hotels, files, netCalls,
                   stages, stageOut, outcomes, rng, harnessVars>>

\* save_csv("budget_hotels.csv", filtered)
SaveCsv ==
    /\ pc = "save_csv"
    /\ files' = [files EXCEPT !["budget_hotels.csv"] = Some(save_csv(filtered))]
    /\ pc' = "save_json"
    /\ UNCHANGED <<city, budget_text, budget_amount, budget_currency, hotels, avg_price,
                   filtered, best_value, exitStatus, raised, netCalls, stages,
                   stageOut, outcomes, rng, harnessVars>>

\* save_json("budget_hotels.json", filtered); the best-value line; the end
SaveJson ==
    /\ pc = "save_json"
    /\ files' = [files EXCEPT !["budget_hotels.json"] = Some(save_json(filtered))]
    /\ Exit(0)
    /\ UNCHANGED <<city, budget_text, budget_amount, budget_currency, hotels, avg_price,
                   filtered, best_value, raised, netCalls, stages, stageOut,
                   outcomes, rng, harnessVars>>

Next ==
    \/ InputCity
    \/ InputBudget
    \/ FetchPrimary
    \/ ExtractGeneral
    \/ FetchFallback
    \/ ExitNoHotels
    \/ Rank
    \/ SaveCsv
    \/ SaveJson

Spec == Init /\ [][Next]_vars

-----------------------------------------------------------------------------
(* Properties of the run of main *)

InStages(st) == \E i \in 1..Len(stages) : stages[i] = st

\* the run has passed both input checks
Validated == pc \notin {"input_city", "input_budget"} /\ city # <<>> /\ budget_amount # None

\* main has reached the ranking code (average_price and what follows)
Ranked ==
    \/ pc \in {"save_csv", "save_json"}
    \/ pc = "exited" /\ (raised.where = "print_table" \/ files["budget_hotels.json"] # None)

\* fetch_hotels_fallback has returned to main
FallbackReturned ==
    outcomes["fallback"] # "" /\ raised.where # "fetch_hotels_fallback"

\* the responses on which the try block of fetch_hotels_fallback raises an
\* exception that its except clause names
FallbackFailures == {"transport_error", "error_status", "not_json", "null", "number"}

NoFileWritten == \A p \in Paths : files[p] = None

-----------------------------------------------------------------------------
(* C1 *)

\* C1 as claimed: whenever the fallback stage returns having found nothing
\* usable, the synthetic generator has run and supplied the listings
C1_MockWheneverNothingUsable ==
    (FallbackReturned /\ stageOut["fallback"] = Some(<<>>)) =>
        (InStages("mock") /\ hotels # <<>>)

\* C1 as amended: the listing set handed to ranking is never empty.  After
\* the fallback stage has returned, the generator has run exactly when the
\* request or its payload raised an error the stage catches, and then its
\* five listings are the listing set; when the fallback returned normally
\* with nothing usable the generator has not run, the listing set is empty
\* and the run ends with status 0 without ranking.
C1_NonEmptyAtRanking ==
    /\ Ranked => (Validated /\ hotels # <<>>)
    /\ FallbackReturned =>
          /\ InStages("mock") <=> outcomes["fallback"] \in FallbackFailures
          /\ InStages("mock") =>
                /\ Len(hotels) = 5
                /\ hotels = stageOut["mock"].v
                /\ \A k \in 1..5 : hotels[k].name = Str(city \o MockSuffixes[k])
          /\ (~InStages("mock") /\ stageOut["fallback"] = Some(<<>>)) =>
                /\ hotels = <<>>
                /\ ~Ranked
                /\ pc = "exited" => exitStatus = Some(0)

\* the fallback failed with a null payload and the generator's listings
\* have been ranked
C1_Witness ==
    /\ pc = "save_csv"
    /\ outcomes["fallback"] = "null"
    /\ InStages("mock")
    /\ Len(hotels) = 5

\* the fallback answered with an empty array: no generator, exit 0
C1_WitnessEmptyArray ==
    /\ pc = "exited" /\ exitStatus = Some(0)
    /\ outcomes["fallback"] = "array" /\ stageOut["fallback"] = Some(<<>>)
    /\ ~InStages("mock")

-----------------------------------------------------------------------------
(* C2 *)

\* C2: no exception leaves fetch_hotels_fallback, whatever the response
C2_FallbackNeverRaises == raised.where # "fetch_hotels_fallback"

-----------------------------------------------------------------------------
(* C3 *)

\* C3 as claimed: every run that exits with status 0 (so has passed input
\* validation) has written both output files
C3_ExitZeroWroteFiles ==
    (pc = "exited" /\ exitStatus = Some(0)) => \A p \in Paths : files[p] # None

\* C3 as amended: a run that exits with status 0 has passed validation; if
\* its listing set is empty after the primary and fallback stages it has
\* written no file; otherwise it has written both, the CSV holding the header
\* row and one row per filtered listing and the JSON file one object per
\* filtered listing (so header only and an empty array when no listing is
\* within budget).
C3_ExitZeroFiles ==
    (pc = "exited" /\ exitStatus = Some(0)) =>
        /\ Validated
        /\ hotels = <<>> => (NoFileWritten /\ FallbackReturned)
        /\ hotels # <<>> =>
              /\ files["budget_hotels.csv"] # None
              /\ files["budget_hotels.json"] # None
              /\ Len(files["budget_hotels.csv"].v) = Len(filtered) + 1
              /\ files["budget_hotels.csv"].v[1] = "name,rating,price,currency"
              /\ \A i \in 1..Len(filtered) :
                    files["budget_hotels.csv"].v[i + 1][1] = filtered[i].name
              /\ Len(files["budget_hotels.json"].v) = Len(filtered)
              /\ \A i \in 1..Len(filtered) :
                    files["budget_hotels.json"].v[i].name = filtered[i].name

\* listings were found, none within budget: header-only CSV, empty array
C3_Witness ==
    /\ pc = "exited" /\ exitStatus = Some(0)
    /\ hotels # <<>> /\ filtered = <<>>
    /\ files["budget_hotels.csv"] = Some(<<"name,rating,price,currency">>)
    /\ files["budget_hotels.json"] = Some(<<>>)

-----------------------------------------------------------------------------
(* C4 *)

\* the city typed was empty, or the budget typed gave no amount
InputRejected ==
    \/ pc # "input_city" /\ city = <<>>
    \/ pc \notin {"input_city", "input_budget"} /\ budget_amount = None

\* C4: a run whose city is empty after trimming, or whose budget text gives
\* no amount, has exited with a non-zero status without any request sent or
\* file written; and a request is only ever sent after both inputs passed
C4_InputErrors ==
    /\ InputRejected =>
          /\ pc = "exited"
          /\ exitStatus # None /\ exitStatus.v # 0
          /\ netCalls = <<>>
          /\ NoFileWritten
    /\ netCalls # <<>> => (city # <<>> /\ budget_amount # None)
    /\ (pc # "input_city" /\ budget_text # <<>>) =>
          (budget_amount = None <=> parse_number(budget_text) = None)

\* the budget "1.2.3" has digits but no amount
C4_Witness ==
    /\ pc = "exited" /\ exitStatus = Some(1)
    /\ city # <<>>
    /\ budget_text = <<"1", ".", "2", ".", "3">>
    /\ netCalls = <<>>

-----------------------------------------------------------------------------
(* C6 *)

\* the positions of the fetched listings that are within the budget
Eligible ==
    {i \in 1..Len(hotels) :
        hotels[i].price # None /\ DecLeq(hotels[i].price.v, budget_amount.v)}

PricedPositions == {i \in 1..Len(hotels) : hotels[i].price # None}

\* the sum of the prices at a set of positions
RECURSIVE PriceSumAt(_)
PriceSumAt(I) ==
    IF I = {} THEN Dec(0, 0)
    ELSE LET i == CHOOSE x \in I : TRUE
         IN  DecAdd(PriceSumAt(I \ {i}), hotels[i].price.v)

\* C6: filtered holds exactly the fetched listings whose price is present
\* and <= the budget, in their order; the best value is one of them; the
\* average is over all fetched listings that have a price
C6_BudgetFilter ==
    Ranked =>
        /\ Len(filtered) = Cardinality(Eligible)
        /\ \A i \in Eligible :
              filtered[Cardinality({k \in Eligible : k <= i})] = hotels[i]
        /\ \A j \in 1..Len(filtered) :
              /\ filtered[j].price # None
              /\ DecLeq(filtered[j].price.v, budget_amount.v)
        /\ best_value = None <=> filtered = <<>>
        /\ best_value # None =>
              /\ \E j \in 1..Len(filtered) : filtered[j] = best_value.v
              /\ best_value.v.price # None
              /\ DecLeq(best_value.v.price.v, budget_amount.v)
        /\ avg_price = None <=> PricedPositions = {}
        /\ avg_price # None =>
              /\ avg_price.v[2] = Cardinality(PricedPositions)
              /\ avg_price.v[1] = PriceSumAt(PricedPositions)

\* the only rated listing is over the budget of 50; the unrated one at
\* exactly 50 is kept and is the best value; the average covers both
C6_Witness ==
    /\ pc = "save_csv"
    /\ budget_amount = Some(Dec(50, 0))
    /\ Len(hotels) = 2
    /\ hotels[1].price = Some(Dec(70, 0)) /\ hotels[1].rating = Some(Dec(85, 1))
    /\ hotels[2].price = Some(Dec(50, 0)) /\ hotels[2].rating = None
    /\ filtered = <<hotels[2]>>
    /\ best_value = Some(hotels[2])
    /\ avg_price = Some(<<Dec(120, 0), 2>>)

-----------------------------------------------------------------------------
(* C9 *)

StageOrder == <<"structured", "heuristic", "fallback", "mock">>

StageIndex(st) == CHOOSE k \in 1..Len(StageOrder) : StageOrder[k] = st

\* C9: the stages run in the order structured, heuristic, fallback, mock;
\* the heuristic scan only after a structured scan that found nothing; the
\* fallback only after a failed primary request or a primary that found
\* nothing; the generator only after a failed fallback request or payload;
\* and once a stage has produced a listing no later stage runs and its
\* listings are the listing set
C9_StageOrder ==
    /\ \A i, j \in 1..Len(stages) :
          i < j => StageIndex(stages[i]) < StageIndex(stages[j])
    /\ \A st \in Stages : InStages(st) <=> stageOut[st] # None
    /\ InStages("heuristic") => stageOut["structured"] = Some(<<>>)
    /\ InStages("fallback") =>
          \/ outcomes["primary"] \in {"transport_error", "error_status"}
          \/ /\ outcomes["primary"] = "page"
             /\ stageOut["structured"] = Some(<<>>)
             /\ stageOut["heuristic"] = Some(<<>>)
    /\ InStages("mock") =>
          /\ outcomes["fallback"] \in FallbackFailures
          /\ stageOut["fallback"] = Some(<<>>)
    /\ \A st \in Stages :
          (stageOut[st] # None /\ stageOut[st] # Some(<<>>)) =>
              /\ stages[Len(stages)] = st
              /\ hotels = stageOut[st].v
    /\ Ranked => \E st \in Stages : stageOut[st] = Some(hotels)
    /\ Len(netCalls) <= 2
    /\ \A i \in 1..Len(netCalls) : netCalls[i] = <<"primary", "fallback">>[i]

\* all four stages ran, in order, and the generator's listings were ranked
C9_Witness ==
    /\ stages = <<"structured", "heuristic", "fallback", "mock">>
    /\ pc = "save_csv"
    /\ hotels = stageOut["mock"].v

-----------------------------------------------------------------------------
(* C10 *)

HasName(h) == h.name # PyNone /\ h.name # Str(<<>>) /\ Truthy(h.name)

AllNamed(hs) == \A i \in 1..Len(hs) : HasName(hs[i])

\* C10: every listing a stage produced, and every listing ranked, shown or
\* saved, has a name that is present and not empty; a candidate without a
\* name is dropped and a candidate with one is kept, whatever else it lacks
C10_NamePresent ==
    /\ AllNamed(hotels) /\ AllNamed(filtered)
    /\ \A st \in Stages : stageOut[st] # None => AllNamed(stageOut[st].v)
    /\ best_value # None => HasName(best_value.v)
    /\ files["budget_hotels.json"] # None =>
          \A i \in 1..Len(files["budget_hotels.json"].v) :
              HasName(files["budget_hotels.json"].v[i])
    /\ files["budget_hotels.csv"] # None =>
          \A i \in 2..Len(files["budget_hotels.csv"].v) :
              Truthy(files["budget_hotels.csv"].v[i][1])
    /\ \A card \in Cards :
          /\ (card.title = None \/ card.title.v = <<>>) <=> CardHotel(card) = <<>>
          /\ CardHotel(card) # <<>> => CardHotel(card)[1].name = Str(card.title.v)
    /\ \A node \in TextNodes :
          NodeHotel(node) # <<>> <=>
              /\ node.container # None
              /\ \E k \in 1..5 :
                    /\ node.container.v.names[k] # None
                    /\ Len(node.container.v.names[k].v) > 2
    /\ \A item \in JsonObjects :
          FallbackItem(item).hotel # <<>> <=>
              (Truthy(item.name) \/ Truthy(item.hotel_name))

\* a structured card with a title and nothing else became a listing with
\* no rating, price or currency, and was carried to the output files
C10_Witness ==
    /\ pc = "exited" /\ exitStatus = Some(0)
    /\ \E i \in 1..Len(hotels) :
          /\ hotels[i].name = Str(T_Inn)
          /\ hotels[i].rating = None /\ hotels[i].price = None
          /\ hotels[i].currency = None
    /\ files["budget_hotels.json"] # None

-----------------------------------------------------------------------------
(* C8 *)

\* s[i..j] is digit groups joined by single '.' or ','
IsNumberToken(s, i, j) ==
    /\ 1 <= i /\ i <= j /\ j <= Len(s)
    /\ IsDigit(s[i]) /\ IsDigit(s[j])
    /\ \A k \in i..j : IsDigit(s[k]) \/ s[k] \in {".", ","}
    /\ \A k \in i..(j - 1) : IsDigit(s[k]) \/ IsDigit(s[k + 1])

\* the value of a decimal numeral ds1 '.' ds2, digit by digit
RECURSIVE WeightedSum(_, _, _)
WeightedSum(s, k, w) ==
    IF k < 1 THEN 0 ELSE DigitVal(s[k]) * w + WeightedSum(s, k - 1, 10 * w)

DecimalValue(tok) ==
    LET ds   == Remove(tok, ".")
        frac == IF Count(tok, ".") = 0 THEN 0
                ELSE Len(tok) - (CHOOSE i \in 1..Len(tok) : tok[i] = ".")
    IN  Dec(WeightedSum(ds, Len(ds), 1), frac)

\* C8: parse_number returns without raising; it returns None when the text
\* has no digit; otherwise it takes the first maximal substring of digit
\* groups joined by '.' or ',', removes all commas and returns its decimal
\* value, or None when more than one '.' remains; a returned value is >= 0.
C8_ParseNumber ==
    called =>
        /\ result.exc = ""
        /\ (\A i \in 1..Len(text) : ~IsDigit(text[i])) => result.ret = None
        /\ (\E i \in 1..Len(text) : IsDigit(text[i])) =>
              LET i   == CHOOSE a \in 1..Len(text) :
                             IsDigit(text[a]) /\ \A b \in 1..(a - 1) : ~IsDigit(text[b])
                  j   == CHOOSE b \in i..Len(text) :
                             /\ IsNumberToken(text, i, b)
                             /\ \A c \in (b + 1)..Len(text) : ~IsNumberToken(text, i, c)
                  tok == Remove(SubSeq(text, i, j), ",")
              IN  IF Count(tok, ".") > 1
                  THEN result.ret = None
                  ELSE result.ret = Some(DecimalValue(tok))
        /\ result.ret # None => result.ret.v.m >= 0

\* a signed text with a thousands comma has been parsed to a value
C8_Witness ==
    /\ called
    /\ Len(text) >= 4 /\ text[1] = "-" /\ Count(text, ",") = 1
    /\ result.ret # None /\ result.ret.v.m > 0

\* a text with digits whose token has two dots has been parsed to None
C8_WitnessTwoDots ==
    /\ called
    /\ text = <<"5", ".", "0", ".", "5">>
    /\ result = [exc |-> "", ret |-> None]

-----------------------------------------------------------------------------
(* C5 *)

\* the comparison key of the rating: an absent rating counts as 0
RatingOrZero(h) == IF h.rating = None THEN Dec(0, 0) ELSE h.rating.v

\* C5: find_best_value returns None iff no listing has a price; otherwise
\* it returns the listing of least price, among those the one of highest
\* rating (absent = 0), among those the first in input order; the input list
\* is left as it was.
C5_FindBestValue ==
    called =>
        /\ hotels = text
        /\ (result = None) <=> (\A i \in 1..Len(text) : text[i].price = None)
        /\ result # None =>
              \E k \in 1..Len(text) :
                 /\ result = Some(text[k])
                 /\ text[k].price # None
                 /\ \A i \in 1..Len(text) :
                       text[i].price # None =>
                          /\ DecLeq(text[k].price.v, text[i].price.v)
                          /\ text[i].price = text[k].price =>
                                /\ DecLeq(RatingOrZero(text[i]), RatingOrZero(text[k]))
                                /\ (RatingOrZero(text[i]) = RatingOrZero(text[k])) => k <= i

\* the spec's example shape: two listings tied at the least price, the
\* second better rated, and a dearer, still better rated third
C5_Witness ==
    /\ called
    /\ Len(text) = 3
    /\ text[1].price = Some(Dec(50, 0)) /\ text[1].rating = Some(Dec(80, 1))
    /\ text[2].price = Some(Dec(50, 0)) /\ text[2].rating = Some(Dec(90, 1))
    /\ text[3].price = Some(Dec(60, 0))
    /\ text[1].name # text[2].name
    /\ result = Some(text[2])

-----------------------------------------------------------------------------
(* C7 *)

\* C7 as claimed: two calls whose cities are equal ignoring case return
\* identical sequences (names included)
C7_SameListings ==
    (called >= 2 /\ LowerStr(text.city) = LowerStr(result.city)) =>
        text.ret = result.ret

\* C7 as amended: two calls whose cities are equal ignoring case, whatever
\* was drawn from the stream in between, return five listings each, with
\* the same ratings, prices and currency position by position; the names
\* are the city as typed followed by the same suffix, so they are the same
\* when the two city strings are identical
C7_SameNumbers ==
    (called >= 2 /\ LowerStr(text.city) = LowerStr(result.city)) =>
        /\ Len(text.ret) = 5 /\ Len(result.ret) = 5
        /\ \A k \in 1..5 :
              /\ text.ret[k].rating = result.ret[k].rating
              /\ text.ret[k].price = result.ret[k].price
              /\ text.ret[k].currency = result.ret[k].currency
              /\ text.ret[k].name = Str(text.city \o MockSuffixes[k])
              /\ result.ret[k].name = Str(result.city \o MockSuffixes[k])
        /\ text.city = result.city => text.ret = result.ret

\* generate_mock_hotels("Mu"), two draws by other code, then
\* generate_mock_hotels("mu")
C7_Witness ==
    /\ called = 2
    /\ text.city = <<"M", "u">> /\ result.city = <<"m", "u">>
    /\ text.draws = 2
    /\ text.ret[1].rating = result.ret[1].rating
    /\ text.ret[1].name # result.ret[1].name

====
